---- MODULE Spec2Model ----
(***************************************************************************)
(* A model of the learning-progress, purchase, certificate and password-   *)
(* reset handlers of topgrade_api / dashboard.                             *)
(*                                                                         *)
(* The database tables are sets of rows (records with an auto-increment    *)
(* id); every HTTP handler is one action, except in the specifications     *)
(* that study concurrent requests, where a handler is cut at its database  *)
(* statements (Django runs each statement in autocommit mode).             *)
(***************************************************************************)
EXTENDS Integers, Sequences, FiniteSets, TLC

(***************************************************************************)
(* Bounds of the model.                                                    *)
(***************************************************************************)
\* how many Topic rows are ever created (auto-increment ids 1..MaxTopics)
MaxTopics == 2
\* how many UserPurchase rows are ever created
MaxPurchases == 2

(***************************************************************************)
(* Program constants.                                                      *)
(***************************************************************************)
\* learning_view.py:206  total_duration = video_duration or 1800
DefaultDuration == 1800
\* learning_view.py:233  if completion_percentage >= 90
CompletedThreshold == 90

Users == {"u1", "u2"}
Programs == {"p1", "p2"}

\* UserPurchase.PURCHASE_STATUS_CHOICES
PurchaseStatuses == {"pending", "completed", "cancelled"}

(***************************************************************************)
(* Topic.video_duration is a CharField.  A value is modelled by the list   *)
(* of its ':'-separated parts (what str.split(':') returns); a part is an  *)
(* integer literal or a text int() rejects.  The empty list stands for     *)
(* None and for '' (both are falsy at learning_view.py:196).               *)
(***************************************************************************)
IntPart(n) == [isInt |-> TRUE, v |-> n]
BadPart == [isInt |-> FALSE, v |-> 0]
NoDuration == << >>

\* int(part) succeeds for every part of the list
AllInt(parts) == \A i \in 1..Len(parts) : parts[i].isInt

\* learning_view.py:195-204: the parsed duration, or None.
\* [none |-> TRUE] is Python's None.
ParseVideoDuration(vd) ==
    IF vd = NoDuration THEN [none |-> TRUE, secs |-> 0]
    ELSE IF Len(vd) = 2 THEN
        IF AllInt(vd) THEN [none |-> FALSE, secs |-> vd[1].v * 60 + vd[2].v]
        ELSE [none |-> TRUE, secs |-> 0]
    ELSE IF Len(vd) = 3 THEN
        IF AllInt(vd)
        THEN [none |-> FALSE, secs |-> vd[1].v * 3600 + vd[2].v * 60 + vd[3].v]
        ELSE [none |-> TRUE, secs |-> 0]
    ELSE [none |-> TRUE, secs |-> 0]

\* learning_view.py:206: video_duration or 1800 (None and 0 are falsy)
TotalDuration(vd) ==
    LET r == ParseVideoDuration(vd)
    IN IF r.none \/ r.secs = 0 THEN DefaultDuration ELSE r.secs

(***************************************************************************)
(* A percentage is kept as the exact quotient num/den (den > 0) the        *)
(* handler computes.                                                       *)
(***************************************************************************)
Pct(n, d) == [num |-> n, den |-> d]
ZeroPct == Pct(0, 1)
\* p >= k and p > k for an integer k
PctGE(p, k) == p.num >= k * p.den
PctGT(p, k) == p.num > k * p.den
PctEq(p, q) == p.num * q.den = q.num * p.den

\* learning_view.py:229: min(100.0, (watch / total_duration) * 100), total_duration > 0
TopicCompletion(watch, total_duration) ==
    IF total_duration < 0 THEN Pct(-(watch * 100), -total_duration)
    ELSE IF watch * 100 >= 100 * total_duration THEN Pct(100, 1)
    ELSE Pct(watch * 100, total_duration)

\* learning_view.py:233-238: the status after an update, given the status before
MutStatusStrictThreshold(old_status, pct) ==
    IF PctGT(pct, 90) THEN "completed"
    ELSE IF PctGT(pct, 0) THEN "in_progress"
    ELSE old_status

NextTopicStatus(old_status, pct) ==
    IF PctGE(pct, CompletedThreshold) THEN "completed"
    ELSE IF PctGT(pct, 0) THEN "in_progress"
    ELSE old_status

VARIABLES
    topics,              \* Topic rows (the syllabus is folded into the topic)
    nextTopicId,
    purchases,           \* UserPurchase rows
    nextPurchaseId,
    topicProgress,       \* UserTopicProgress rows
    nextTopicProgressId,
    courseProgress,      \* UserCourseProgress rows
    nextCourseProgressId,
    certificates,        \* UserCertificate rows
    emailTasks,          \* queued send_certificates_email_task calls
    outbox,              \* the certificate emails handed to the mail server
    requests,            \* the requests being handled concurrently
    otps,                \* OTPVerification rows
    passwords,           \* CustomUser.password of every user
    now,                 \* timezone.now(), in minutes
    verifiedSince,       \* history: verify_otp succeeded since the last request_otp
    otpRequested,        \* history: request_otp has reset the record of the email
    accounts,            \* CustomUser rows created by signup and phone_signin
    nextAccountId,
    resp                 \* the response of the last request handled

catalogVars == <<topics, nextTopicId>>
purchaseVars == <<purchases, nextPurchaseId>>
progressVars == <<topicProgress, nextTopicProgressId, courseProgress,
                  nextCourseProgressId>>
certVars == <<certificates, emailTasks, outbox>>
authVars == <<otps, passwords, now, verifiedSince, otpRequested,
             accounts, nextAccountId>>

vars == <<catalogVars, purchaseVars, progressVars, certVars, requests,
          authVars, resp>>

(***************************************************************************)
(* Rows and lookups.                                                       *)
(***************************************************************************)
Reply(op, code, u, pid, tid) ==
    [op |-> op, code |-> code, user |-> u, purchase |-> pid, topic |-> tid,
     course_progress |-> 0, body |-> << >>]

\* the reply of a certificate endpoint, called for course_progress_id = cpid
CertReply(op, code, cpid) ==
    [op |-> op, code |-> code, user |-> "-", purchase |-> 0, topic |-> 0,
     course_progress |-> cpid, body |-> << >>]

RECURSIVE SumWatch(_)
\* models.Sum('watch_time_seconds') over a set of UserTopicProgress rows
SumWatch(rows) ==
    IF rows = {} THEN 0
    ELSE LET r == CHOOSE x \in rows : TRUE
         IN r.watch_time_seconds + SumWatch(rows \ {r})

Max(a, b) == IF a >= b THEN a ELSE b

\* learning_view.py:166-170: the user's purchase with this id and status 'completed'
FindCompletedPurchase(rows, u, pid) ==
    {p \in rows : p.id = pid /\ p.user = u /\ p.status = "completed"}

\* learning_view.py:179
FindTopic(rows, tid) == {t \in rows : t.id = tid}

\* the lookup of get_or_create at learning_view.py:209-212
FindTopicProgress(rows, u, pid, tid) ==
    {r \in rows : r.user = u /\ r.purchase = pid /\ r.topic = tid}

\* the lookup of get_or_create at learning_view.py:243-245
FindCourseProgress(rows, u, pid) ==
    {c \in rows : c.user = u /\ c.purchase = pid}

\* models.py:339-344: UniqueConstraint(fields=['user', 'topic']); TRUE when
\* the database accepts an INSERT of a row for (u, tid)
MutNoUniqueUserTopic(rows, u, tid) == TRUE

UniqueUserTopicOK(rows, u, tid) ==
    ~ \E r \in rows : r.user = u /\ r.topic = tid

\* models.py:320: total_duration_seconds is a PositiveIntegerField, the
\* database CHECKs >= 0 on INSERT and UPDATE
PositiveFieldOK(n) == n >= 0

\* learning_view.py:213-220: the defaults of a created UserTopicProgress
NewTopicProgress(id, u, pid, tid, total_duration) ==
    [id |-> id, user |-> u, purchase |-> pid, topic |-> tid,
     status |-> "not_started", watch_time_seconds |-> 0,
     total_duration_seconds |-> total_duration,
     completion_percentage |-> ZeroPct]

\* learning_view.py:224-238: the in-memory row the handler then saves
UpdatedTopicProgress(row, w, total_duration) ==
    LET watch == Max(row.watch_time_seconds, w)
        pct == TopicCompletion(watch, total_duration)
    IN [row EXCEPT !.watch_time_seconds = watch,
                   !.total_duration_seconds = total_duration,
                   !.completion_percentage = pct,
                   !.status = NextTopicStatus(row.status, pct)]

\* learning_view.py:246-254: the defaults of a created UserCourseProgress
NewCourseProgress(id, u, pid, total_topics) ==
    [id |-> id, user |-> u, purchase |-> pid, total_topics |-> total_topics,
     completed_topics |-> 0, in_progress_topics |-> 0,
     total_watch_time_seconds |-> 0, completion_percentage |-> ZeroPct,
     is_completed |-> FALSE]

\* learning_view.py:258-279: the four queries of the rollup
MutRollupCountsRows(tpRows, topicRows, u, purchase) ==
    LET mine == {r \in tpRows : r.user = u /\ r.purchase = purchase.id}
    IN [total_topics |-> Cardinality(mine),
        completed_topics |-> Cardinality({r \in mine : r.status = "completed"}),
        in_progress_topics |-> Cardinality({r \in mine : r.status = "in_progress"}),
        total_watch_time |-> SumWatch(mine)]

RollupCounts(tpRows, topicRows, u, purchase) ==
    LET mine == {r \in tpRows : r.user = u /\ r.purchase = purchase.id}
    IN [total_topics |->
            Cardinality({t \in topicRows : t.program = purchase.program}),
        completed_topics |-> Cardinality({r \in mine : r.status = "completed"}),
        in_progress_topics |-> Cardinality({r \in mine : r.status = "in_progress"}),
        total_watch_time |-> SumWatch(mine)]

\* learning_view.py:281-289: the course progress row the handler saves
RolledUp(cp, counts) ==
    LET course_completion ==
            IF counts.total_topics > 0
            THEN Pct(counts.completed_topics * 100, counts.total_topics)
            ELSE ZeroPct
    IN [cp EXCEPT !.completion_percentage = course_completion,
                  !.completed_topics = counts.completed_topics,
                  !.in_progress_topics = counts.in_progress_topics,
                  !.total_topics = counts.total_topics,
                  !.is_completed = PctGE(course_completion, 100),
                  !.total_watch_time_seconds = counts.total_watch_time]

(***************************************************************************)
(* POST /learning/update-progress, handled without interruption.           *)
(***************************************************************************)
\* learning_view.py:208-289, once the request is validated
UpdateAccepted(u, purchase, topic, w) ==
    LET total_duration == TotalDuration(topic.video_duration)
        found == FindTopicProgress(topicProgress, u, purchase.id, topic.id)
        created == found = {}
        row == IF created
               THEN NewTopicProgress(nextTopicProgressId, u, purchase.id,
                                     topic.id, total_duration)
               ELSE CHOOSE r \in found : TRUE
        saved == UpdatedTopicProgress(row, w, total_duration)
        tp2 == (topicProgress \ {row}) \cup {saved}
        cps == FindCourseProgress(courseProgress, u, purchase.id)
        cp == IF cps = {}
              THEN NewCourseProgress(nextCourseProgressId, u, purchase.id, 0)
              ELSE CHOOSE c \in cps : TRUE
        cp2 == RolledUp(cp, RollupCounts(tp2, topics, u, purchase))
    IN IF \/ Cardinality(found) > 1
          \/ created /\ ~ UniqueUserTopicOK(topicProgress, u, topic.id)
          \/ ~ PositiveFieldOK(total_duration)
       THEN \* MultipleObjectsReturned or IntegrityError: learning_view.py:314
            /\ resp' = Reply("update_progress", 500, "-", 0, 0)
            /\ UNCHANGED progressVars
       ELSE /\ topicProgress' = tp2
            /\ nextTopicProgressId' =
                   IF created THEN nextTopicProgressId + 1 ELSE nextTopicProgressId
            /\ courseProgress' = (courseProgress \ {cp}) \cup {cp2}
            /\ nextCourseProgressId' =
                   IF cps = {} THEN nextCourseProgressId + 1 ELSE nextCourseProgressId
            /\ resp' = Reply("update_progress", 200, u, purchase.id, topic.id)

\* learning_view.py:157-192: the status of the error reply, 0 when the
\* request passes the validation
MutNoProgramCheck(u, pid, tid, w) ==
    IF w < 0 THEN 400
    ELSE IF FindCompletedPurchase(purchases, u, pid) = {} THEN 404
    ELSE IF FindTopic(topics, tid) = {} THEN 404
    ELSE 0

UpdateRejection(u, pid, tid, w) ==
    LET ps == FindCompletedPurchase(purchases, u, pid)
        ts == FindTopic(topics, tid)
    IN IF w < 0 THEN 400
       ELSE IF ps = {} THEN 404
       ELSE IF ts = {} THEN 404
       ELSE IF (CHOOSE t \in ts : TRUE).program # (CHOOSE p \in ps : TRUE).program
       THEN 400
       ELSE 0

\* learning_view.py:149-314
UpdateLearningProgress(u, pid, tid, w) ==
    LET code == UpdateRejection(u, pid, tid, w)
    IN /\ UNCHANGED <<catalogVars, purchaseVars, certVars, requests, authVars>>
       /\ IF code # 0
          THEN \* an error reply names neither the purchase nor the topic
               /\ resp' = Reply("update_progress", code, "-", 0, 0)
               /\ UNCHANGED progressVars
          ELSE UpdateAccepted(u,
                   CHOOSE p \in FindCompletedPurchase(purchases, u, pid) : TRUE,
                   CHOOSE t \in FindTopic(topics, tid) : TRUE, w)

(***************************************************************************)
(* Edits of a topic's video.                                               *)
(***************************************************************************)
MMSS(m, sec) == <<IntPart(m), IntPart(sec)>>
HHMMSS(h, m, sec) == <<IntPart(h), IntPart(m), IntPart(sec)>>

\* program_view.py:8-107: what calculate_video_duration returns: None, or
\* format_duration's MM:SS / HH:MM:SS text ("00:00" for a clip under 1 s)
CalculatedDurations ==
    {NoDuration, MMSS(0, 0), MMSS(0, 10), MMSS(0, 20), HHMMSS(1, 0, 0)}

\* admin.py:160-164: TopicAdmin edits the CharField freely
TypedDurations ==
    CalculatedDurations \cup
        {<<BadPart, IntPart(10)>>, <<IntPart(90)>>, MMSS(-1, 0)}

\* the watch_time_seconds a client posts (UpdateProgressSchema: any int)
WatchInputs == {-1, 0, 9, 18}

\* program_view.py:466-483: edit_program_view with a new video file for an
\* existing topic
EditProgramReplaceVideo(tid, d) ==
    /\ \E t \in topics :
          /\ t.id = tid
          /\ topics' = (topics \ {t}) \cup
                 {[t EXCEPT !.video_file = TRUE, !.video_duration = d]}
          /\ resp' = Reply("edit_program", 302, "-", 0, 0)
    /\ UNCHANGED <<nextTopicId, purchaseVars, progressVars, certVars,
                   requests, authVars>>

\* admin.py:160-164: the admin site's change form of a Topic
TopicAdminSave(tid, d) ==
    /\ \E t \in topics :
          /\ t.id = tid
          /\ topics' = (topics \ {t}) \cup {[t EXCEPT !.video_duration = d]}
          /\ resp' = Reply("topic_admin", 302, "-", 0, 0)
    /\ UNCHANGED <<nextTopicId, purchaseVars, progressVars, certVars,
                   requests, authVars>>

NewTopic(id, program, d, has_file) ==
    [id |-> id, program |-> program, video_duration |-> d,
     video_file |-> has_file, is_intro |-> FALSE, is_free_trial |-> FALSE]

NewPurchase(id, u, program, status, goldpass) ==
    [id |-> id, user |-> u, program |-> program, status |-> status,
     require_goldpass |-> goldpass]

(***************************************************************************)
(* Parts of the initial states.                                            *)
(***************************************************************************)
InitNoProgress ==
    /\ topicProgress = {}
    /\ nextTopicProgressId = 1
    /\ courseProgress = {}
    /\ nextCourseProgressId = 1

InitNoCertificates ==
    /\ certificates = {}
    /\ emailTasks = << >>
    /\ outbox = {}

InitNoRequests == requests = << >>

InitAuthIdle ==
    /\ otps = {}
    /\ passwords = [u \in Users |-> 0]
    /\ now = 0
    /\ verifiedSince = [u \in Users |-> FALSE]
    /\ otpRequested = [u \in Users |-> FALSE]
    /\ accounts = {}
    /\ nextAccountId = 1

(***************************************************************************)
(* SpecWatch: one student who holds program p1, whose single topic the     *)
(* admin re-uploads and edits while the student reports watch time.        *)
(***************************************************************************)
InitWatch ==
    /\ topics = {NewTopic(1, "p1", MMSS(0, 10), TRUE),
                 NewTopic(2, "p2", MMSS(0, 10), TRUE)}
    /\ nextTopicId = 3
    /\ purchases = {NewPurchase(1, "u1", "p1", "completed", FALSE)}
    /\ nextPurchaseId = 2
    /\ InitNoProgress
    /\ InitNoCertificates
    /\ InitNoRequests
    /\ InitAuthIdle
    /\ resp = Reply("none", 0, "-", 0, 0)

WatchUpdate ==
    \E u \in Users, pid \in 1..2, tid \in 1..3, w \in WatchInputs :
        UpdateLearningProgress(u, pid, tid, w)

WatchReplaceVideo ==
    \E d \in CalculatedDurations : EditProgramReplaceVideo(1, d)

WatchTopicAdmin ==
    \E d \in TypedDurations : TopicAdminSave(1, d)

NextWatch == WatchUpdate \/ WatchReplaceVideo \/ WatchTopicAdmin

SpecWatch == InitWatch /\ [][NextWatch]_vars

(***************************************************************************)
(* Claims about one topic-progress row.                                    *)
(***************************************************************************)
StatusRank(st) ==
    CASE st = "not_started" -> 0
      [] st = "in_progress" -> 1
      [] st = "completed" -> 2

\* C1: across update-progress calls interleaved with admin edits of the
\* topic's video_duration, the status of the (user, topic) row never moves
\* backward (completed stays completed, in_progress never returns to
\* not_started).
C1_StatusNeverBackward ==
    [][\A r \in topicProgress : \A r2 \in topicProgress' :
          (r2.user = r.user /\ r2.topic = r.topic)
              => StatusRank(r2.status) >= StatusRank(r.status)]_vars

\* the duration d of claim C2: parsed from MM:SS or HH:MM:SS, and 1800 when
\* video_duration is missing, unparsable or zero
C2_Duration(vd) ==
    LET secs == CASE Len(vd) = 2 /\ AllInt(vd) -> vd[1].v * 60 + vd[2].v
                  [] Len(vd) = 3 /\ AllInt(vd) ->
                         vd[1].v * 3600 + vd[2].v * 60 + vd[3].v
                  [] OTHER -> 0
    IN IF secs = 0 THEN 1800 ELSE secs

\* the last request was a successful update-progress call
UpdateSucceeded == resp.op = "update_progress" /\ resp.code = 200

\* C2: after a successful update-progress call, with w the stored watch time
\* and d the topic duration (never 0), the row of the call's (user, topic)
\* exists, is 'completed' if w/d >= 0.9, 'in_progress' if 0 < w/d < 0.9 and
\* 'not_started' if w = 0, and its completion_percentage is min(100, w/d*100).
C2_StatusMatchesWatchRatio ==
    UpdateSucceeded =>
        \E t \in topics : \E r \in topicProgress :
            /\ t.id = resp.topic
            /\ r.user = resp.user /\ r.topic = resp.topic
            /\ LET d == C2_Duration(t.video_duration)
                   w == r.watch_time_seconds
               IN /\ d > 0
                  /\ (w * 10 >= 9 * d) => r.status = "completed"
                  /\ (0 < w /\ w * 10 < 9 * d) => r.status = "in_progress"
                  /\ (w = 0) => r.status = "not_started"
                  /\ PctEq(r.completion_percentage,
                           IF w >= d THEN Pct(100, 1) ELSE Pct(100 * w, d))

\* C2 witness: a successful call that left the row exactly at the 90 % mark
C2_Witness ==
    /\ UpdateSucceeded
    /\ \E r \in topicProgress :
          /\ r.user = resp.user /\ r.topic = resp.topic
          /\ r.watch_time_seconds * 10 = 9 * r.total_duration_seconds
          /\ r.status = "completed"

(***************************************************************************)
(* The dashboard: assignments, the program's topics, certificates.         *)
(***************************************************************************)
\* models.py:249-254: UniqueConstraint(fields=['user', 'program']); TRUE when
\* the database accepts an INSERT of a purchase for (u, program)
MutNoUniqueUserProgram(rows, u, program) == TRUE

UniqueUserProgramOK(rows, u, program) ==
    ~ \E p \in rows : p.user = u /\ p.program = program

\* the ON DELETE CASCADE foreign keys of models.py:298-308, 395-400, 724-729
PurchaseDeleted(pid) ==
    LET gone == {c.id : c \in {x \in courseProgress : x.purchase = pid}}
    IN /\ purchases' = {p \in purchases : p.id # pid}
       /\ topicProgress' = {r \in topicProgress : r.purchase # pid}
       /\ courseProgress' = {c \in courseProgress : c.purchase # pid}
       /\ certificates' = {c \in certificates : c.course_progress \notin gone}

\* student_view.py:226-265: form_type == 'assign_program'
AssignProgram(student, program, is_goldpass) ==
    /\ nextPurchaseId <= MaxPurchases
    /\ IF \E p \in purchases : p.user = student /\ p.program = program
       THEN \* "already enrolled"
            /\ UNCHANGED purchaseVars
            /\ resp' = Reply("assign_program", 409, "-", 0, 0)
       ELSE /\ purchases' = purchases \cup
                {NewPurchase(nextPurchaseId, student, program, "completed",
                             is_goldpass)}
            /\ nextPurchaseId' = nextPurchaseId + 1
            /\ resp' = Reply("assign_program", 302, "-", 0, 0)
    /\ UNCHANGED <<catalogVars, progressVars, certVars, requests, authVars>>

\* student_view.py:283-297: form_type == 'remove_assignment'
RemoveAssignment(pid) ==
    /\ \E p \in purchases : p.id = pid
    /\ PurchaseDeleted(pid)
    /\ resp' = Reply("remove_assignment", 302, "-", 0, 0)
    /\ UNCHANGED <<catalogVars, nextPurchaseId, nextTopicProgressId,
                   nextCourseProgressId, emailTasks, outbox, requests,
                   authVars>>

\* program_view.py:484-506: edit_program_view with one more topic in the
\* module than the syllabus holds
EditProgramAddTopic(program, has_file, d, is_intro) ==
    /\ nextTopicId <= MaxTopics
    /\ topics' = topics \cup
           {[NewTopic(nextTopicId, program, d, has_file) EXCEPT !.is_intro = is_intro]}
    /\ nextTopicId' = nextTopicId + 1
    /\ resp' = Reply("edit_program", 302, "-", 0, 0)
    /\ UNCHANGED <<purchaseVars, progressVars, certVars, requests, authVars>>

\* program_view.py:508-511: edit_program_view with one topic fewer: the last
\* topic of the module is deleted, and its progress rows with it (CASCADE)
EditProgramRemoveLastTopic(program) ==
    /\ \E t \in topics :
          /\ t.program = program
          /\ \A t2 \in topics : t2.program = program => t2.id <= t.id
          /\ topics' = topics \ {t}
          /\ topicProgress' = {r \in topicProgress : r.topic # t.id}
          /\ resp' = Reply("edit_program", 302, "-", 0, 0)
    /\ UNCHANGED <<nextTopicId, purchaseVars, nextTopicProgressId,
                   courseProgress, nextCourseProgressId, certVars, requests,
                   authVars>>

\* student_certificate_view.py:29, :113 and tasks.py:22
MutFindAnyCourseProgress(rows, cpid) == {c \in rows : c.id = cpid}

FindCompletedCourseProgress(rows, cpid) ==
    {c \in rows : c.id = cpid /\ c.is_completed}

\* internship_certificate_generator.py:94-100
CertificateTypes(include_placement) ==
    {"internship", "training", "credit", "recommendation"} \cup
        (IF include_placement THEN {"placement"} ELSE {})

\* the absent or empty course_progress_id field of a POST
NoId == 0

\* student_certificate_view.py:116-120
CertificatesOf(rows, cp, program) ==
    {c \in rows : /\ c.user = cp.user
                  /\ c.course_progress = cp.id
                  /\ c.program = program}

\* student_certificate_view.py:16-97; `failing` are the certificate types
\* whose PDF rendering raises (internship_certificate_generator.py:113-116)
\* and base_certificate_number stands for the "CERT-" + uuid4 text drawn at
\* :36-37.  get_or_create keeps the certificate_number of a row it finds
GenerateCertificate(cpid, failing, base_certificate_number) ==
    LET cps == FindCompletedCourseProgress(courseProgress, cpid)
    IN /\ IF cpid = NoId
          THEN /\ resp' = CertReply("generate_certificate", 400, cpid)
               /\ UNCHANGED certificates
          ELSE IF cps = {}
          THEN /\ resp' = CertReply("generate_certificate", 404, cpid)
               /\ UNCHANGED certificates
          ELSE LET cp == CHOOSE c \in cps : TRUE
                   purchase == CHOOSE p \in purchases : p.id = cp.purchase
                   types == CertificateTypes(purchase.require_goldpass) \ failing
                   old == CertificatesOf(certificates, cp, purchase.program)
                   kept == {c \in old : c.certificate_type \in types}
                   made == {[user |-> cp.user, course_progress |-> cp.id,
                             program |-> purchase.program,
                             certificate_type |-> ty, status |-> "pending",
                             certificate_number |-> base_certificate_number,
                             certificate_file |-> TRUE] :
                            ty \in types \ {c.certificate_type : c \in old}}
               IN /\ certificates' =
                         (certificates \ kept)
                             \cup {[c EXCEPT !.certificate_file = TRUE] : c \in kept}
                             \cup made
                  /\ resp' = [CertReply("generate_certificate", 200, cpid)
                                 EXCEPT !.body =
                                     [certificate_number |-> base_certificate_number,
                                      require_goldpass |-> purchase.require_goldpass]]
       /\ UNCHANGED <<catalogVars, purchaseVars, progressVars, emailTasks,
                      outbox, requests, authVars>>

\* tasks.py:14-15: a queued call of send_certificates_email_task and the
\* number of retries it has behind it (self.request.retries)
EmailTask(cpid, retries) == [course_progress_id |-> cpid, retries |-> retries]

\* student_certificate_view.py:100-167
SendCertificate(cpid) ==
    LET cps == FindCompletedCourseProgress(courseProgress, cpid)
        reply(code) ==
            /\ resp' = CertReply("send_certificate", code, cpid)
            /\ UNCHANGED certVars
    IN /\ IF cpid = NoId THEN reply(400)
          ELSE IF cps = {} THEN reply(404)
          ELSE LET cp == CHOOSE c \in cps : TRUE
                   purchase == CHOOSE p \in purchases : p.id = cp.purchase
                   certs == CertificatesOf(certificates, cp, purchase.program)
                   pending == {c \in certs : c.status = "pending"}
               IN IF certs = {} THEN reply(404)
                  ELSE IF pending = {} THEN reply(200)
                  ELSE /\ certificates' =
                              (certificates \ pending)
                                  \cup {[c EXCEPT !.status = "sent"] : c \in pending}
                       /\ emailTasks' = Append(emailTasks, EmailTask(cpid, 0))
                       /\ UNCHANGED outbox
                       /\ resp' = CertReply("send_certificate", 200, cpid)
       /\ UNCHANGED <<catalogVars, purchaseVars, progressVars, requests, authVars>>

(***************************************************************************)
(* Spec: the requests handled one after the other, from an empty database  *)
(* but for the users and the programs.                                     *)
(***************************************************************************)
Init ==
    /\ topics = {}
    /\ nextTopicId = 1
    /\ purchases = {}
    /\ nextPurchaseId = 1
    /\ InitNoProgress
    /\ InitNoCertificates
    /\ InitNoRequests
    /\ InitAuthIdle
    /\ resp = Reply("none", 0, "-", 0, 0)

PurchaseIds == 1..MaxPurchases
TopicIds == 1..MaxTopics
\* every UserCourseProgress belongs to one purchase (models.py:395-400)
CourseProgressIds == 0..(MaxPurchases + 1)

\* student u1 is enrolled in the programs; u2 holds none
Assign == \E p \in Programs : AssignProgram("u1", p, FALSE)

Unassign == \E pid \in PurchaseIds : RemoveAssignment(pid)

AddTopic == \E p \in Programs : EditProgramAddTopic(p, TRUE, MMSS(0, 10), FALSE)

RemoveTopic == \E p \in Programs : EditProgramRemoveLastTopic(p)

Update ==
    \E u \in Users, pid \in PurchaseIds, tid \in TopicIds, w \in {5, 9} :
        UpdateLearningProgress(u, pid, tid, w)

Generate == \E cpid \in CourseProgressIds : GenerateCertificate(cpid, {}, 1)

Send == \E cpid \in CourseProgressIds : SendCertificate(cpid)

Next ==
    \/ Assign
    \/ Unassign
    \/ AddTopic
    \/ RemoveTopic
    \/ Update
    \/ Generate
    \/ Send

Spec == Init /\ [][Next]_vars

(***************************************************************************)
(* Claims about the course rollup and the certificates.                    *)
(***************************************************************************)
\* C3: after every successful update-progress call the purchase's
\* UserCourseProgress has completion_percentage = completed / total * 100
\* (0 when the program has no topic), completed being the number of the
\* user's 'completed' rows of the purchase and total the number of topics of
\* the purchased program, and is_completed is true exactly when that
\* percentage is at least 100.
C3_RollupMatchesRows ==
    UpdateSucceeded =>
        \E p \in purchases : \E c \in courseProgress :
            /\ p.id = resp.purchase
            /\ c.user = resp.user /\ c.purchase = p.id
            /\ LET completed ==
                       Cardinality({r \in topicProgress :
                                       /\ r.user = resp.user
                                       /\ r.purchase = p.id
                                       /\ r.status = "completed"})
                   total == Cardinality({t \in topics : t.program = p.program})
                   cpct == c.completion_percentage
               IN /\ total = 0 => cpct.num = 0
                  /\ total > 0 => cpct.num * total = completed * 100 * cpct.den
                  /\ c.is_completed <=> cpct.num >= 100 * cpct.den

\* C3 witness: a successful call after which one of the two topics of the
\* program is completed
C3_Witness ==
    /\ UpdateSucceeded
    /\ \E c \in courseProgress :
          /\ c.user = resp.user /\ c.purchase = resp.purchase
          /\ c.total_topics = 2
          /\ c.completed_topics = 1
          /\ ~ c.is_completed

\* C7: generate_certificate_ajax and send_certificate_ajax, called for a
\* course progress that is not completed or does not exist, reply 404,
\* create no certificate, change no certificate status and queue no email.
C7_OnlyCompletedCourses ==
    [][(/\ resp'.op \in {"generate_certificate", "send_certificate"}
        /\ resp'.course_progress # NoId
        /\ ~ \E c \in courseProgress :
                 c.id = resp'.course_progress /\ c.is_completed)
       => (/\ resp'.code = 404
           /\ certificates' = certificates
           /\ emailTasks' = emailTasks)]_vars

\* C7 witness: a generation refused for a course progress that exists and is
\* not completed
C7_Witness ==
    /\ resp.op = "generate_certificate"
    /\ resp.code = 404
    /\ \E c \in courseProgress : c.id = resp.course_progress /\ ~ c.is_completed

\* C8: in every reachable state the course progress of every UserCertificate
\* has is_completed = True.
C8_CertificatesOfCompletedCourses ==
    \A c \in certificates :
        \E cp \in courseProgress : cp.id = c.course_progress /\ cp.is_completed

(***************************************************************************)
(* Purchases and assignments handled concurrently.  Every handler first    *)
(* looks for a purchase of the pair and then INSERTs one; another request  *)
(* may run between the two statements (autocommit, no lock).               *)
(***************************************************************************)
\* the most requests in flight at a time
MaxRequests == 2

\* a request that found no purchase and is about to INSERT one
PurchaseRequest(op, u, program, goldpass) ==
    [op |-> op, user |-> u, program |-> program, require_goldpass |-> goldpass,
     todo |-> << >>, pending |-> {}, broken |-> FALSE, checked |-> TRUE]

\* enquiry_view.py:312-313: the request inside transaction.atomic(), with
\* the assignments still to handle and the rows INSERTed but not committed
BulkRequest(assignments, goldpass) ==
    [op |-> "assign_programs_bulk", user |-> "-", program |-> "-",
     require_goldpass |-> goldpass, todo |-> assignments, pending |-> {},
     broken |-> FALSE, checked |-> FALSE]

RemoveAt(s, i) == SubSeq(s, 1, i - 1) \o SubSeq(s, i + 1, Len(s))

RECURSIVE InsertsAhead(_)
\* the INSERTs the requests in flight may still make
InsertsAhead(reqs) ==
    IF reqs = << >> THEN 0
    ELSE (IF Head(reqs).op = "assign_programs_bulk"
          THEN Len(Head(reqs).todo) ELSE 1) + InsertsAhead(Tail(reqs))

\* keeps the purchase ids within MaxPurchases and the requests in flight
\* within MaxRequests
CanAdmit(n) ==
    /\ Len(requests) < MaxRequests
    /\ nextPurchaseId + InsertsAhead(requests) + n <= MaxPurchases + 1

\* the rows INSERTed by the open transactions other than request i: the
\* unique index makes an INSERT of the same pair wait for their commit
UncommittedPurchases(i) ==
    UNION {requests[j].pending : j \in (1..Len(requests)) \ {i}}

InsertWaits(i, u, program) ==
    \E r \in UncommittedPurchases(i) : r.user = u /\ r.program = program

\* purchase_view.py:36-40 and program_view.py:327-331: only a 'completed'
\* purchase counts
MutHasPurchaseOfAnyStatus(rows, u, program) ==
    \E p \in rows : p.user = u /\ p.program = program

HasCompletedPurchase(rows, u, program) ==
    \E p \in rows : p.user = u /\ p.program = program /\ p.status = "completed"

\* student_view.py:238-241, enquiry_view.py:242-245, :334-337
HasAnyPurchase(rows, u, program) ==
    \E p \in rows : p.user = u /\ p.program = program

\* the reply of purchase_course, with its message, whether
\* dummy_payment_gateway was called and whether it reported success
PurchaseReply(code, u, pid, program, message, gateway_called, payment_success) ==
    [Reply("purchase_course", code, u, pid, 0) EXCEPT
        !.body = [program |-> program, message |-> message,
                  gateway_called |-> gateway_called,
                  payment_success |-> payment_success]]

\* purchase_view.py:35-69: the lookup of a completed purchase, and only
\* then the payment; the message is empty when the request goes on
MutPaymentBeforeLookup(already_purchased, payment_success) ==
    IF ~ payment_success
    THEN [message |-> "Payment failed. Please try again.", gateway_called |-> TRUE]
    ELSE IF already_purchased
    THEN [message |-> "You have already purchased this course",
          gateway_called |-> TRUE]
    ELSE [message |-> "", gateway_called |-> TRUE]

PurchaseChecks(already_purchased, payment_success) ==
    IF already_purchased
    THEN [message |-> "You have already purchased this course",
          gateway_called |-> FALSE]
    ELSE IF ~ payment_success
    THEN [message |-> "Payment failed. Please try again.", gateway_called |-> TRUE]
    ELSE [message |-> "", gateway_called |-> TRUE]

\* purchase_view.py:24-69: up to the payment
PurchaseCourseCheck(u, program, payment_success) ==
    /\ CanAdmit(1)
    /\ LET checks == PurchaseChecks(HasCompletedPurchase(purchases, u, program),
                                    payment_success)
       IN IF checks.message # ""
          THEN /\ resp' = PurchaseReply(400, u, 0, program, checks.message,
                                        checks.gateway_called,
                                        checks.gateway_called /\ payment_success)
               /\ UNCHANGED requests
          ELSE /\ requests' = Append(requests,
                      PurchaseRequest("purchase_course", u, program, FALSE))
               /\ UNCHANGED resp
    /\ UNCHANGED <<catalogVars, purchaseVars, progressVars, certVars, authVars>>

\* purchase_view.py:71-115: the INSERT, then the course progress of the new
\* purchase; an IntegrityError is answered with 500
PurchaseCourseCreate(i) ==
    /\ i \in 1..Len(requests)
    /\ requests[i].op = "purchase_course"
    /\ LET u == requests[i].user
           program == requests[i].program
       IN /\ ~ InsertWaits(i, u, program)
          /\ IF UniqueUserProgramOK(purchases, u, program)
             THEN /\ purchases' = purchases \cup
                        {NewPurchase(nextPurchaseId, u, program, "completed", FALSE)}
                  /\ nextPurchaseId' = nextPurchaseId + 1
                  /\ courseProgress' = courseProgress \cup
                        {NewCourseProgress(nextCourseProgressId, u, nextPurchaseId,
                            Cardinality({t \in topics : t.program = program}))}
                  /\ nextCourseProgressId' = nextCourseProgressId + 1
                  /\ resp' = PurchaseReply(200, u, nextPurchaseId, program,
                                 "Course purchased successfully!", TRUE, TRUE)
             ELSE /\ resp' = PurchaseReply(500, u, 0, program,
                                 "Error processing purchase", TRUE, TRUE)
                  /\ UNCHANGED <<purchaseVars, courseProgress, nextCourseProgressId>>
    /\ requests' = RemoveAt(requests, i)
    /\ UNCHANGED <<catalogVars, topicProgress, nextTopicProgressId, certVars,
                   authVars>>

\* student_view.py:233-244 and enquiry_view.py:222-252: the lookup of a
\* purchase of the pair, of any status (409 stands for the "already
\* enrolled" message)
AssignCheck(op, u, program, goldpass) ==
    /\ CanAdmit(1)
    /\ IF HasAnyPurchase(purchases, u, program)
       THEN /\ resp' = Reply(op, 409, "-", 0, 0)
            /\ UNCHANGED requests
       ELSE /\ requests' = Append(requests, PurchaseRequest(op, u, program, goldpass))
            /\ UNCHANGED resp
    /\ UNCHANGED <<catalogVars, purchaseVars, progressVars, certVars, authVars>>

\* student_view.py:245-262 and enquiry_view.py:254-284: the INSERT; the
\* `except Exception` turns an IntegrityError into an error message (500)
AssignCreate(i, op) ==
    /\ i \in 1..Len(requests)
    /\ requests[i].op = op
    /\ LET u == requests[i].user
           program == requests[i].program
       IN /\ ~ InsertWaits(i, u, program)
          /\ IF UniqueUserProgramOK(purchases, u, program)
             THEN /\ purchases' = purchases \cup
                        {NewPurchase(nextPurchaseId, u, program, "completed",
                                     requests[i].require_goldpass)}
                  /\ nextPurchaseId' = nextPurchaseId + 1
                  /\ resp' = Reply(op, 200, u, nextPurchaseId, 0)
             ELSE /\ resp' = Reply(op, 500, "-", 0, 0)
                  /\ UNCHANGED purchaseVars
    /\ requests' = RemoveAt(requests, i)
    /\ UNCHANGED <<catalogVars, progressVars, certVars, authVars>>

\* enquiry_view.py:292-313: the request enters transaction.atomic()
AssignProgramsBulkBegin(assignments, goldpass) ==
    /\ assignments # << >>
    /\ CanAdmit(Len(assignments))
    /\ requests' = Append(requests, BulkRequest(assignments, goldpass))
    /\ UNCHANGED <<catalogVars, purchaseVars, progressVars, certVars, authVars,
                   resp>>

\* enquiry_view.py:314-342: the lookup for the next assignment, which sees
\* the committed rows and the transaction's own; in a transaction broken by
\* an earlier IntegrityError every query raises and the assignment is
\* skipped (:366-368)
AssignProgramsBulkCheck(i) ==
    /\ i \in 1..Len(requests)
    /\ requests[i].op = "assign_programs_bulk"
    /\ requests[i].todo # << >>
    /\ ~ requests[i].checked
    /\ LET a == Head(requests[i].todo)
       IN requests' =
              [requests EXCEPT ![i] =
                  IF \/ requests[i].broken
                     \/ HasAnyPurchase(purchases \cup requests[i].pending,
                                       a.user, a.program)
                  THEN [@ EXCEPT !.todo = Tail(@)]
                  ELSE [@ EXCEPT !.checked = TRUE]]
    /\ UNCHANGED <<catalogVars, purchaseVars, progressVars, certVars, authVars,
                   resp>>

\* enquiry_view.py:344-351: the INSERT inside the transaction; an
\* IntegrityError marks the transaction for rollback
AssignProgramsBulkCreate(i) ==
    /\ i \in 1..Len(requests)
    /\ requests[i].op = "assign_programs_bulk"
    /\ requests[i].checked
    /\ LET a == Head(requests[i].todo)
       IN /\ ~ InsertWaits(i, a.user, a.program)
          /\ IF UniqueUserProgramOK(purchases, a.user, a.program)
             THEN /\ requests' =
                        [requests EXCEPT ![i] =
                            [@ EXCEPT !.todo = Tail(@), !.checked = FALSE,
                                      !.pending = @ \cup
                                          {NewPurchase(nextPurchaseId, a.user,
                                              a.program, "completed",
                                              requests[i].require_goldpass)}]]
                  /\ nextPurchaseId' = nextPurchaseId + 1
             ELSE /\ requests' =
                        [requests EXCEPT ![i] =
                            [@ EXCEPT !.todo = Tail(@), !.checked = FALSE,
                                      !.broken = TRUE]]
                  /\ UNCHANGED nextPurchaseId
    /\ UNCHANGED <<catalogVars, purchases, progressVars, certVars, authVars,
                   resp>>

\* enquiry_view.py:313, :370-384: leaving transaction.atomic() commits, or
\* rolls back when the transaction is marked for rollback
AssignProgramsBulkCommit(i) ==
    /\ i \in 1..Len(requests)
    /\ requests[i].op = "assign_programs_bulk"
    /\ requests[i].todo = << >>
    /\ purchases' = IF requests[i].broken THEN purchases
                    ELSE purchases \cup requests[i].pending
    /\ resp' = Reply("assign_programs_bulk", 200, "-", 0, 0)
    /\ requests' = RemoveAt(requests, i)
    /\ UNCHANGED <<catalogVars, nextPurchaseId, progressVars, certVars,
                   authVars>>

\* admin.py:167-196: the admin site's change form of a UserPurchase
UserPurchaseAdminSave(pid, status) ==
    /\ \E p \in purchases :
          /\ p.id = pid
          /\ purchases' = (purchases \ {p}) \cup {[p EXCEPT !.status = status]}
    /\ resp' = Reply("purchase_admin", 302, "-", 0, 0)
    /\ UNCHANGED <<catalogVars, nextPurchaseId, progressVars, certVars,
                   requests, authVars>>

(***************************************************************************)
(* SpecPurchase: the four handlers that create purchases, interleaved.     *)
(***************************************************************************)
InitPurchase ==
    /\ topics = {NewTopic(1, "p1", MMSS(0, 10), TRUE)}
    /\ nextTopicId = 2
    /\ purchases = {}
    /\ nextPurchaseId = 1
    /\ InitNoProgress
    /\ InitNoCertificates
    /\ InitNoRequests
    /\ InitAuthIdle
    /\ resp = Reply("none", 0, "-", 0, 0)

Assignment(u, program) == [user |-> u, program |-> program]

\* the `assignments` lists posted to assign_programs_bulk
BulkInputs ==
    {<<Assignment("u1", "p1")>>,
     <<Assignment("u1", "p1"), Assignment("u1", "p1")>>,
     <<Assignment("u2", "p1"), Assignment("u1", "p1")>>}

RequestSlots == 1..MaxRequests

PurchaseCheck ==
    \E u \in Users, ok \in BOOLEAN : PurchaseCourseCheck(u, "p1", ok)

PurchaseCreate == \E i \in RequestSlots : PurchaseCourseCreate(i)

AssignProgramCheck ==
    \E u \in Users : AssignCheck("assign_program", u, "p1", FALSE)

AssignProgramCreate == \E i \in RequestSlots : AssignCreate(i, "assign_program")

AssignFromEnquiryCheck ==
    \E u \in Users : AssignCheck("assign_program_from_enquiry", u, "p1", TRUE)

AssignFromEnquiryCreate ==
    \E i \in RequestSlots : AssignCreate(i, "assign_program_from_enquiry")

BulkBegin == \E a \in BulkInputs : AssignProgramsBulkBegin(a, FALSE)

BulkCheck == \E i \in RequestSlots : AssignProgramsBulkCheck(i)

BulkCreate == \E i \in RequestSlots : AssignProgramsBulkCreate(i)

BulkCommit == \E i \in RequestSlots : AssignProgramsBulkCommit(i)

PurchaseAdminSave ==
    \E pid \in PurchaseIds, st \in PurchaseStatuses : UserPurchaseAdminSave(pid, st)

NextPurchase ==
    \/ PurchaseCheck
    \/ PurchaseCreate
    \/ AssignProgramCheck
    \/ AssignProgramCreate
    \/ AssignFromEnquiryCheck
    \/ AssignFromEnquiryCreate
    \/ BulkBegin
    \/ BulkCheck
    \/ BulkCreate
    \/ BulkCommit
    \/ PurchaseAdminSave
    \/ Unassign

SpecPurchase == InitPurchase /\ [][NextPurchase]_vars

\* C4: in every reachable state, whatever the interleaving of purchase_course,
\* assign_program, assign_program_from_enquiry and assign_programs_bulk
\* requests, no two UserPurchase rows have the same user and program.
C4_OnePurchasePerUserProgram ==
    \A p \in purchases, q \in purchases :
        (p.user = q.user /\ p.program = q.program) => p = q

\* C4 witness: two requests both found no purchase of the pair; the first
\* INSERT went through and the database has just refused the second
C4_Witness ==
    /\ resp.code = 500
    /\ resp.op \in {"purchase_course", "assign_program",
                    "assign_program_from_enquiry"}
    /\ \E p \in purchases : p.user = "u1" /\ p.program = "p1"

(***************************************************************************)
(* POST /learning/update-progress handled concurrently: the statements of  *)
(* learning_view.py:208-289 run in autocommit, one request per thread, so  *)
(* another request may run between any two of them.                        *)
(***************************************************************************)
NoCounts ==
    [total_topics |-> 0, completed_topics |-> 0, in_progress_topics |-> 0,
     total_watch_time |-> 0]

\* a request between two statements: the position, the UserTopicProgress
\* instance in memory, the UserCourseProgress it loaded and the counts read
UpdateRequest(u, purchase, tid, w, total_duration, pc, row) ==
    [op |-> "update_progress", user |-> u, purchase |-> purchase.id,
     program |-> purchase.program, topic |-> tid, watch_time_seconds |-> w,
     total_duration |-> total_duration, pc |-> pc, row |-> row,
     refetched |-> FALSE, course_progress |-> 0, counts |-> NoCounts]

\* learning_view.py:149-212: the validation and the SELECT of get_or_create
UpdateBegin(u, pid, tid, w) ==
    LET ps == FindCompletedPurchase(purchases, u, pid)
        ts == FindTopic(topics, tid)
        reject(code) ==
            /\ resp' = Reply("update_progress", code, "-", 0, 0)
            /\ UNCHANGED requests
    IN /\ Len(requests) < MaxRequests
       /\ UNCHANGED <<catalogVars, purchaseVars, progressVars, certVars, authVars>>
       /\ IF w < 0 THEN reject(400)
          ELSE IF ps = {} THEN reject(404)
          ELSE IF ts = {} THEN reject(404)
          ELSE LET purchase == CHOOSE p \in ps : TRUE
                   topic == CHOOSE t \in ts : TRUE
                   total_duration == TotalDuration(topic.video_duration)
                   found == FindTopicProgress(topicProgress, u, pid, tid)
               IN IF topic.program # purchase.program THEN reject(400)
                  ELSE IF Cardinality(found) > 1 THEN reject(500)
                  ELSE /\ requests' = Append(requests,
                              IF found = {}
                              THEN UpdateRequest(u, purchase, tid, w, total_duration,
                                       "insert_topic",
                                       NewTopicProgress(0, u, pid, tid, total_duration))
                              ELSE UpdateRequest(u, purchase, tid, w, total_duration,
                                       "save_topic", CHOOSE r \in found : TRUE))
                       /\ UNCHANGED resp

\* learning_view.py:209-221: the INSERT of get_or_create; on an
\* IntegrityError get_or_create SELECTs again and raises if it finds nothing
UpdateInsertTopic(i) ==
    /\ i \in 1..Len(requests)
    /\ requests[i].op = "update_progress"
    /\ requests[i].pc = "insert_topic"
    /\ LET q == requests[i]
           found == FindTopicProgress(topicProgress, q.user, q.purchase, q.topic)
           row == NewTopicProgress(nextTopicProgressId, q.user, q.purchase,
                                   q.topic, q.total_duration)
       IN IF /\ UniqueUserTopicOK(topicProgress, q.user, q.topic)
             /\ PositiveFieldOK(q.total_duration)
          THEN /\ topicProgress' = topicProgress \cup {row}
               /\ nextTopicProgressId' = nextTopicProgressId + 1
               /\ requests' = [requests EXCEPT ![i] =
                                  [@ EXCEPT !.pc = "save_topic", !.row = row]]
               /\ UNCHANGED resp
          ELSE IF found # {}
          THEN /\ requests' = [requests EXCEPT ![i] =
                                  [@ EXCEPT !.pc = "save_topic",
                                            !.row = CHOOSE r \in found : TRUE,
                                            !.refetched = TRUE]]
               /\ UNCHANGED <<topicProgress, nextTopicProgressId, resp>>
          ELSE /\ requests' = RemoveAt(requests, i)
               /\ resp' = Reply("update_progress", 500, "-", 0, 0)
               /\ UNCHANGED <<topicProgress, nextTopicProgressId>>
    /\ UNCHANGED <<catalogVars, purchaseVars, courseProgress,
                   nextCourseProgressId, certVars, authVars>>

\* learning_view.py:223-240: the new values computed from the instance in
\* memory and written by topic_progress.save()
UpdateSaveTopic(i) ==
    /\ i \in 1..Len(requests)
    /\ requests[i].op = "update_progress"
    /\ requests[i].pc = "save_topic"
    /\ LET q == requests[i]
           saved == UpdatedTopicProgress(q.row, q.watch_time_seconds,
                                         q.total_duration)
       IN IF PositiveFieldOK(q.total_duration)
          THEN /\ topicProgress' =
                      {r \in topicProgress : r.id # q.row.id} \cup {saved}
               /\ requests' = [requests EXCEPT ![i] =
                                  [@ EXCEPT !.pc = "count", !.row = saved]]
               /\ UNCHANGED resp
          ELSE /\ requests' = RemoveAt(requests, i)
               /\ resp' = Reply("update_progress", 500, "-", 0, 0)
               /\ UNCHANGED topicProgress
    /\ UNCHANGED <<catalogVars, purchaseVars, nextTopicProgressId,
                   courseProgress, nextCourseProgressId, certVars, authVars>>

\* learning_view.py:242-279: get_or_create of the course progress and the
\* four queries of the rollup
UpdateCount(i) ==
    /\ i \in 1..Len(requests)
    /\ requests[i].op = "update_progress"
    /\ requests[i].pc = "count"
    /\ LET q == requests[i]
           cps == FindCourseProgress(courseProgress, q.user, q.purchase)
           cp == IF cps = {}
                 THEN NewCourseProgress(nextCourseProgressId, q.user, q.purchase, 0)
                 ELSE CHOOSE c \in cps : TRUE
           counts == RollupCounts(topicProgress, topics, q.user,
                                  [id |-> q.purchase, program |-> q.program])
       IN /\ courseProgress' = courseProgress \cup {cp}
          /\ nextCourseProgressId' =
                 IF cps = {} THEN nextCourseProgressId + 1 ELSE nextCourseProgressId
          /\ requests' = [requests EXCEPT ![i] =
                             [@ EXCEPT !.pc = "save_course",
                                       !.course_progress = cp.id,
                                       !.counts = counts]]
    /\ UNCHANGED <<catalogVars, purchaseVars, topicProgress,
                   nextTopicProgressId, certVars, authVars, resp>>

\* learning_view.py:281-311: course_progress.save() with the counts read
\* before, and the response
UpdateSaveCourse(i) ==
    /\ i \in 1..Len(requests)
    /\ requests[i].op = "update_progress"
    /\ requests[i].pc = "save_course"
    /\ LET q == requests[i]
           cp == NewCourseProgress(q.course_progress, q.user, q.purchase, 0)
       IN /\ courseProgress' =
                 {c \in courseProgress : c.id # q.course_progress}
                     \cup {RolledUp(cp, q.counts)}
          /\ resp' = Reply("update_progress", 200, q.user, q.purchase, q.topic)
    /\ requests' = RemoveAt(requests, i)
    /\ UNCHANGED <<catalogVars, purchaseVars, topicProgress,
                   nextTopicProgressId, nextCourseProgressId, certVars, authVars>>

(***************************************************************************)
(* SpecConc: student u1 holds program p1 of two topics and reports watch   *)
(* time from several clients at once.                                      *)
(***************************************************************************)
InitConc ==
    /\ topics = {NewTopic(1, "p1", MMSS(0, 10), TRUE),
                 NewTopic(2, "p1", MMSS(0, 10), TRUE)}
    /\ nextTopicId = 3
    /\ purchases = {NewPurchase(1, "u1", "p1", "completed", FALSE)}
    /\ nextPurchaseId = 2
    /\ InitNoProgress
    /\ InitNoCertificates
    /\ InitNoRequests
    /\ InitAuthIdle
    /\ resp = Reply("none", 0, "-", 0, 0)

ConcBegin ==
    \E pid \in {1, 2}, tid \in {1, 2}, w \in {5, 9} : UpdateBegin("u1", pid, tid, w)

ConcInsertTopic == \E i \in RequestSlots : UpdateInsertTopic(i)

ConcSaveTopic == \E i \in RequestSlots : UpdateSaveTopic(i)

ConcCount == \E i \in RequestSlots : UpdateCount(i)

ConcSaveCourse == \E i \in RequestSlots : UpdateSaveCourse(i)

NextConc ==
    \/ ConcBegin
    \/ ConcInsertTopic
    \/ ConcSaveTopic
    \/ ConcCount
    \/ ConcSaveCourse

SpecConc == InitConc /\ [][NextConc]_vars

\* C5: whatever the interleaving of concurrent update-progress requests of
\* one user for one topic, the first two included, at most one
\* UserTopicProgress row exists for the (user, topic) pair.
C5_OneRowPerUserTopic ==
    \A r1 \in topicProgress, r2 \in topicProgress :
        (r1.user = r2.user /\ r1.topic = r2.topic) => r1 = r2

\* C5 witness: two first requests for the topic both found no row; one
\* INSERTed it, the INSERT of the other was refused and it works on the
\* row of the first
C5_Witness ==
    \E i \in 1..Len(requests) :
        /\ requests[i].refetched
        /\ Cardinality({r \in topicProgress :
                           r.user = requests[i].user
                           /\ r.topic = requests[i].topic}) = 1

\* C6: when no update-progress request is in flight, every stored
\* UserCourseProgress has completed_topics, in_progress_topics and
\* total_watch_time_seconds equal to the counts and the sum over the
\* purchase's current UserTopicProgress rows.
C6_RollupNotStale ==
    requests = << >> =>
        \A c \in courseProgress :
            LET mine == {r \in topicProgress :
                            r.user = c.user /\ r.purchase = c.purchase}
            IN /\ c.completed_topics =
                      Cardinality({r \in mine : r.status = "completed"})
               /\ c.in_progress_topics =
                      Cardinality({r \in mine : r.status = "in_progress"})
               /\ c.total_watch_time_seconds = SumWatch(mine)

(***************************************************************************)
(* Password reset by OTP.  Time is counted in minutes.                     *)
(***************************************************************************)
\* auth_views.py:107, :116: timedelta(minutes=10)
OtpLifetime == 10

\* the clock advances by TickMinutes at a time, up to MaxTime
TickMinutes == 5
MaxTime == 15

\* an email address that belongs to no CustomUser
UnknownEmail == "nobody"

\* models.py:57-61: the columns of OTPVerification (verified_at, which
\* nothing reads, is left out); the model has no otp_code field
NewOTPVerification(email, is_verified, expires_at) ==
    [email |-> email, is_verified |-> is_verified, expires_at |-> expires_at]

\* models.py:72-73
is_expired(otp_verification) == now > otp_verification.expires_at

FindOTPVerification(rows, email) == {o \in rows : o.email = email}

AuthReply(op, code, email) == Reply(op, code, email, 0, 0)

\* auth_views.py:89-133.  Without a record get_or_create goes on to build
\* one from defaults that name 'otp_code', which is no field of the model:
\* it raises and the handler answers 500.  With a record, the record is
\* reset (the otp_code attribute set on the instance is not stored)
request_otp(email) ==
    LET found == FindOTPVerification(otps, email)
    IN /\ IF email \notin Users
          THEN /\ resp' = AuthReply("request_otp", 404, email)
               /\ UNCHANGED <<otps, verifiedSince, otpRequested>>
          ELSE IF found = {}
          THEN /\ resp' = AuthReply("request_otp", 500, email)
               /\ UNCHANGED <<otps, verifiedSince, otpRequested>>
          ELSE /\ otps' = (otps \ found) \cup
                     {NewOTPVerification(email, FALSE, now + OtpLifetime)}
               /\ verifiedSince' = [verifiedSince EXCEPT ![email] = FALSE]
               /\ otpRequested' = [otpRequested EXCEPT ![email] = TRUE]
               /\ resp' = AuthReply("request_otp", 200, email)
       /\ UNCHANGED <<catalogVars, purchaseVars, progressVars, certVars,
                      requests, passwords, now,
                      accounts, nextAccountId>>

\* auth_views.py:135-171.  The record loaded from the database has no
\* otp_code attribute: reading it at :154 raises and the handler answers 500
verify_otp(email, otp) ==
    LET found == FindOTPVerification(otps, email)
        reply(code) ==
            /\ resp' = AuthReply("verify_otp", code, email)
            /\ UNCHANGED <<otps, verifiedSince>>
    IN /\ IF email \notin Users THEN reply(404)
          ELSE IF found = {} THEN reply(400)
          ELSE LET otp_verification == CHOOSE o \in found : TRUE
               IN IF is_expired(otp_verification) THEN reply(400)
                  ELSE IF "otp_code" \notin DOMAIN otp_verification
                  THEN reply(500)
                  ELSE IF otp # otp_verification.otp_code THEN reply(400)
                  ELSE /\ otps' = (otps \ found) \cup
                             {[otp_verification EXCEPT !.is_verified = TRUE]}
                       /\ verifiedSince' = [verifiedSince EXCEPT ![email] = TRUE]
                       /\ resp' = AuthReply("verify_otp", 200, email)
       /\ UNCHANGED <<catalogVars, purchaseVars, progressVars, certVars,
                      requests, passwords, now, otpRequested,
                      accounts, nextAccountId>>

\* auth_views.py:173-214.  The body of a reply is the start of its message
reset_password(email, new_password, confirm_password) ==
    LET found == FindOTPVerification(otps, email)
        reply(code, message) ==
            /\ resp' = [AuthReply("reset_password", code, email)
                           EXCEPT !.body = message]
            /\ UNCHANGED <<otps, passwords>>
    IN /\ IF new_password # confirm_password
          THEN reply(400, "Passwords do not match")
          ELSE IF email \notin Users
          THEN reply(404, "User with this email does not exist")
          ELSE IF found = {} THEN reply(400, "OTP verification required")
          ELSE LET otp_verification == CHOOSE o \in found : TRUE
               IN IF ~ otp_verification.is_verified
                  THEN reply(400, "OTP not verified")
                  ELSE IF is_expired(otp_verification)
                  THEN reply(400, "OTP verification has expired")
                  ELSE /\ passwords' = [passwords EXCEPT ![email] = new_password]
                       /\ otps' = otps \ found
                       /\ resp' = [AuthReply("reset_password", 200, email)
                                      EXCEPT !.body = "Password reset successfully"]
       /\ UNCHANGED <<catalogVars, purchaseVars, progressVars, certVars,
                      requests, now, verifiedSince, otpRequested,
                      accounts, nextAccountId>>

\* admin.py:70-101: a superuser adds an OTPVerification in the admin site
\* (email, is_verified and expires_at are form fields; unique_together
\* allows one record per email)
OTPVerificationAdminAdd(email, is_verified, expires_at) ==
    /\ FindOTPVerification(otps, email) = {}
    /\ otps' = otps \cup {NewOTPVerification(email, is_verified, expires_at)}
    /\ resp' = AuthReply("otp_admin_add", 302, email)
    /\ UNCHANGED <<catalogVars, purchaseVars, progressVars, certVars,
                   requests, passwords, now, verifiedSince, otpRequested,
                      accounts, nextAccountId>>

\* admin.py:70-101: a superuser changes an OTPVerification in the admin site
OTPVerificationAdminChange(email, is_verified, expires_at) ==
    /\ FindOTPVerification(otps, email) # {}
    /\ otps' = (otps \ FindOTPVerification(otps, email)) \cup
           {NewOTPVerification(email, is_verified, expires_at)}
    /\ resp' = AuthReply("otp_admin_change", 302, email)
    /\ UNCHANGED <<catalogVars, purchaseVars, progressVars, certVars,
                   requests, passwords, now, verifiedSince, otpRequested,
                      accounts, nextAccountId>>

\* models.py:72-73: timezone.now() moves on
Tick ==
    /\ now + TickMinutes <= MaxTime
    /\ now' = now + TickMinutes
    /\ UNCHANGED <<catalogVars, purchaseVars, progressVars, certVars,
                   requests, otps, passwords, verifiedSince, otpRequested, resp,
                      accounts, nextAccountId>>

(***************************************************************************)
(* SpecAuth: the three endpoints of the password reset, the admin site's   *)
(* OTPVerification forms and the clock.                                    *)
(***************************************************************************)
Emails == {"u1", UnknownEmail}
Passwords == {1, 2}
AdminExpiries == {0, OtpLifetime}

RequestOtp == \E e \in Emails : request_otp(e)

VerifyOtp == \E e \in Emails, otp \in {"123456"} : verify_otp(e, otp)

ResetPassword ==
    \E e \in Emails, p1 \in Passwords, p2 \in Passwords : reset_password(e, p1, p2)

OtpAdminAdd ==
    \E e \in Emails, v \in BOOLEAN, t \in AdminExpiries :
        OTPVerificationAdminAdd(e, v, t)

OtpAdminChange ==
    \E e \in Emails, v \in BOOLEAN, t \in AdminExpiries :
        OTPVerificationAdminChange(e, v, t)

NextAuth ==
    \/ RequestOtp
    \/ VerifyOtp
    \/ ResetPassword
    \/ OtpAdminAdd
    \/ OtpAdminChange
    \/ Tick

SpecAuth == Init /\ [][NextAuth]_vars

\* C9: reset_password changes a user's password only if an OTPVerification
\* record of the email exists, is verified and is not expired, and every
\* password change made through reset_password comes after a successful
\* verify_otp for the email that came after the latest request_otp for it.
C9_ResetOnlyAfterVerifiedOtp ==
    [][(resp'.op = "reset_password" /\ resp'.code = 200)
       => (/\ \E o \in otps :
                 /\ o.email = resp'.user
                 /\ o.is_verified
                 /\ ~ (now > o.expires_at)
           /\ verifiedSince[resp'.user])]_vars

\* C19: a request_otp for an email that has an OTPVerification record
\* leaves the record not verified and expiring OtpLifetime minutes from now,
\* and as long as no verify_otp has succeeded for the email since, a
\* reset_password for it is rejected with 'OTP not verified' and changes no
\* password.  (A step that changes resp into a reply of reset_password is a
\* reset_password call; the calls taken here are those made with matching
\* passwords for the email of a user, after a request_otp that reset its
\* record.)
C19_RequestOtpResetsVerification ==
    [][/\ (resp' # resp /\ resp'.op = "request_otp" /\ resp'.code = 200)
          => \E o \in otps' :
                /\ o.email = resp'.user
                /\ ~ o.is_verified
                /\ o.expires_at = now + OtpLifetime
       /\ (/\ resp' # resp
           /\ resp'.op = "reset_password"
           /\ resp'.code # 404
           /\ resp'.body # "Passwords do not match"
           /\ otpRequested[resp'.user]
           /\ ~ verifiedSince[resp'.user])
          => (/\ resp'.code = 400
              /\ resp'.body = "OTP not verified"
              /\ passwords' = passwords)]_vars

(***************************************************************************)
(* GET /program/{program_id}/details: which videos the response opens.     *)
(***************************************************************************)
\* the empty string of video_url
NoUrl == << >>

\* topic.video_file.url
FileUrl(topic) == <<topic.id>>

\* program_view.py:346-371: the entry of a topic in the response
TopicData(topic, has_purchased) ==
    LET open == \/ (topic.is_intro \/ topic.is_free_trial) /\ topic.video_file
                \/ has_purchased /\ topic.video_file
    IN [id |-> topic.id,
        video_url |-> IF open THEN FileUrl(topic) ELSE NoUrl,
        is_accessible |-> open]

\* program_view.py:303-371 (AuthBearer: request.auth is always a user)
get_program_details(user, program_id) ==
    LET has_purchased == HasCompletedPurchase(purchases, user, program_id)
    IN /\ IF program_id \notin Programs
          THEN resp' = Reply("get_program_details", 404, user, 0, 0)
          ELSE resp' = [Reply("get_program_details", 200, user, 0, 0)
                           EXCEPT !.body =
                               {TopicData(t, has_purchased) :
                                   t \in {x \in topics : x.program = program_id}}]
       /\ UNCHANGED <<catalogVars, purchaseVars, progressVars, certVars,
                      requests, authVars>>

(***************************************************************************)
(* SpecDetails: students are assigned programs, the admin changes the      *)
(* purchases' status and removes assignments, students open programs.      *)
(***************************************************************************)
InitDetails ==
    /\ topics =
          {[NewTopic(1, "p1", MMSS(0, 10), TRUE) EXCEPT !.is_intro = TRUE],
           NewTopic(2, "p1", MMSS(0, 10), TRUE),
           [NewTopic(3, "p1", NoDuration, FALSE) EXCEPT !.is_free_trial = TRUE],
           NewTopic(4, "p1", NoDuration, FALSE),
           NewTopic(5, "p2", MMSS(0, 10), TRUE)}
    /\ nextTopicId = 6
    /\ purchases = {}
    /\ nextPurchaseId = 1
    /\ InitNoProgress
    /\ InitNoCertificates
    /\ InitNoRequests
    /\ InitAuthIdle
    /\ resp = Reply("none", 0, "-", 0, 0)

DetailsAssign == \E u \in Users, p \in Programs : AssignProgram(u, p, FALSE)

Details ==
    \E u \in Users, p \in Programs \cup {"p0"} : get_program_details(u, p)

NextDetails ==
    \/ DetailsAssign
    \/ PurchaseAdminSave
    \/ Unassign
    \/ Details

SpecDetails == InitDetails /\ [][NextDetails]_vars

\* C10: get_program_details gives a topic a non-empty video_url (and
\* is_accessible = true) only if the topic has a video file and either is an
\* intro or free-trial topic or the requesting user holds a 'completed'
\* UserPurchase of the program; with no purchase, a pending or cancelled
\* one or a removed assignment every other topic gets an empty video_url.
C10_VideoOnlyForBuyers ==
    [][(resp'.op = "get_program_details" /\ resp'.code = 200)
       => \A e \in resp'.body :
             /\ e.is_accessible <=> e.video_url # NoUrl
             /\ e.video_url # NoUrl =>
                   \E t \in topics :
                      /\ t.id = e.id
                      /\ t.video_file
                      /\ \/ t.is_intro
                         \/ t.is_free_trial
                         \/ \E p \in purchases :
                               /\ p.user = resp'.user
                               /\ p.program = t.program
                               /\ p.status = "completed"]_vars

\* C10 witness: the response to a student whose purchase of p1 is cancelled
\* opens the intro video and keeps the video of topic 2 closed
C10_Witness ==
    /\ resp.op = "get_program_details"
    /\ resp.code = 200
    /\ \E p \in purchases :
          p.user = resp.user /\ p.program = "p1" /\ p.status = "cancelled"
    /\ \E e \in resp.body : e.id = 1 /\ e.video_url # NoUrl
    /\ \E e \in resp.body : e.id = 2 /\ e.video_url = NoUrl

(***************************************************************************)
(* Accounts: signup, phone sign-in and the profile updates.  A text is the *)
(* sequence of its pieces, so that its prefix and suffix can be tested.    *)
(***************************************************************************)
\* the most accounts created
MaxAccounts == 2

\* None or the empty string
NoText == << >>

\* str.startswith and str.endswith, on the pieces of the text
StartsWith(text, piece) == text # NoText /\ Head(text) = piece
EndsWith(text, piece) == text # NoText /\ text[Len(text)] = piece

RECURSIVE Without(_, _)
\* str.replace(piece, '')
Without(text, piece) ==
    IF text = NoText THEN NoText
    ELSE IF Head(text) = piece THEN Without(Tail(text), piece)
    ELSE <<Head(text)>> \o Without(Tail(text), piece)

\* auth_views.py:50-52, :235-237: the +91 prefix is added to a number
\* that does not start with '+'
WithCountryCode(phone_number) ==
    IF phone_number # NoText /\ ~ StartsWith(phone_number, "+")
    THEN <<"+", "91">> \o phone_number
    ELSE phone_number

\* auth_views.py:248
TempEmail(phone_number) == Without(phone_number, "+") \o <<"@temp.phone.com">>

\* profile_view.py:90
is_phone_otp_user(email) ==
    /\ email # NoText
    /\ StartsWith(email, "phone_")
    /\ EndsWith(email, "@tempuser.com")

\* a CustomUser row; registered_via records the endpoint that created it
NewAccount(id, email, phone_number, fullname, via) ==
    [id |-> id, email |-> email, phone_number |-> phone_number,
     fullname |-> fullname, registered_via |-> via]

\* the reply of an account endpoint, with the email and phone number posted
AccountReply(op, code, id, email, phone_number) ==
    [op |-> op, code |-> code, user |-> "-", purchase |-> 0, topic |-> 0,
     course_progress |-> 0, account |-> id,
     body |-> [email |-> email, phone_number |-> phone_number]]

\* auth_views.py:41-87
signup(email, phone, fullname, password, confirm_password) ==
    LET phone_number == WithCountryCode(phone)
        reply(code) ==
            /\ resp' = AccountReply("signup", code, 0, email, phone_number)
            /\ UNCHANGED <<accounts, nextAccountId>>
    IN /\ IF password # confirm_password THEN reply(400)
          ELSE IF \E a \in accounts : a.email = email THEN reply(400)
          ELSE IF phone_number # NoText
                  /\ \E a \in accounts : a.phone_number = phone_number
          THEN reply(400)
          ELSE IF email = NoText THEN reply(500)
          ELSE /\ accounts' = accounts \cup
                     {NewAccount(nextAccountId, email, phone_number, fullname,
                                 "signup")}
               /\ nextAccountId' = nextAccountId + 1
               /\ resp' = AccountReply("signup", 200, nextAccountId, email,
                                       phone_number)
       /\ UNCHANGED <<catalogVars, purchaseVars, progressVars, certVars,
                      requests, otps, passwords, now, verifiedSince,
                      otpRequested>>

\* auth_views.py:216-275; verified_phone is the number of the Firebase token
phone_signin(verified_phone) ==
    LET phone_number == WithCountryCode(verified_phone)
        found == {a \in accounts : a.phone_number = phone_number}
        temp_email == TempEmail(phone_number)
    IN /\ IF found # {}
          THEN /\ resp' = AccountReply("phone_signin", 200,
                              (CHOOSE a \in found : TRUE).id, NoText, phone_number)
               /\ UNCHANGED <<accounts, nextAccountId>>
          ELSE IF \E a \in accounts : a.email = temp_email
          THEN /\ resp' = AccountReply("phone_signin", 500, 0, NoText, phone_number)
               /\ UNCHANGED <<accounts, nextAccountId>>
          ELSE /\ accounts' = accounts \cup
                     {NewAccount(nextAccountId, temp_email, phone_number, NoText,
                                 "phone_signin")}
               /\ nextAccountId' = nextAccountId + 1
               /\ resp' = AccountReply("phone_signin", 200, nextAccountId,
                                       NoText, phone_number)
       /\ UNCHANGED <<catalogVars, purchaseVars, progressVars, certVars,
                      requests, otps, passwords, now, verifiedSince,
                      otpRequested>>

\* profile_view.py:79-144, called by the account `id`
update_user_profile(id, fullname, email, phone_number) ==
    \E user \in accounts :
        /\ user.id = id
        /\ LET phone_user == is_phone_otp_user(user.email)
               others == accounts \ {user}
               reply(code) ==
                   /\ resp' = AccountReply("update_user_profile", code, id,
                                           email, phone_number)
                   /\ UNCHANGED accounts
           IN IF email # NoText /\ ~ phone_user THEN reply(400)
              ELSE IF email # NoText /\ \E a \in others : a.email = email
              THEN reply(400)
              ELSE IF phone_number # NoText /\ phone_user THEN reply(400)
              ELSE IF phone_number # NoText
                      /\ \E a \in others : a.phone_number = phone_number
              THEN reply(400)
              ELSE /\ accounts' = others \cup
                         {[user EXCEPT
                             !.fullname = IF fullname # NoText THEN fullname ELSE @,
                             !.email = IF email # NoText THEN email ELSE @,
                             !.phone_number =
                                 IF phone_number # NoText THEN phone_number ELSE @]}
                   /\ resp' = AccountReply("update_user_profile", 200, id,
                                           email, phone_number)
        /\ UNCHANGED <<catalogVars, purchaseVars, progressVars, certVars,
                       requests, otps, passwords, now, verifiedSince, otpRequested,
                       nextAccountId>>

\* auth_views.py:308-343, called by the account `id`
profile_update(id, email, fullname) ==
    \E user \in accounts :
        /\ user.id = id
        /\ IF email = NoText \/ fullname = NoText
           THEN /\ resp' = AccountReply("profile_update", 400, id, email, NoText)
                /\ UNCHANGED accounts
           ELSE IF \E a \in accounts \ {user} :
                      a.email = email /\ ~ EndsWith(a.email, "@temp.phone.com")
           THEN /\ resp' = AccountReply("profile_update", 400, id, email, NoText)
                /\ UNCHANGED accounts
           ELSE IF \E a \in accounts \ {user} : a.email = email
           THEN \* user.save() violates the unique email: auth_views.py:342-343
                /\ resp' = AccountReply("profile_update", 500, id, email, NoText)
                /\ UNCHANGED accounts
           ELSE /\ accounts' = (accounts \ {user}) \cup
                      {[user EXCEPT !.email = email, !.fullname = fullname]}
                /\ resp' = AccountReply("profile_update", 200, id, email, NoText)
        /\ UNCHANGED <<catalogVars, purchaseVars, progressVars, certVars,
                       requests, otps, passwords, now, verifiedSince, otpRequested,
                       nextAccountId>>

(***************************************************************************)
(* SpecProfile: accounts are created by both sign-up endpoints and their   *)
(* holders update their profiles.                                          *)
(***************************************************************************)
AccountIds == 1..MaxAccounts

SignupEmails == {<<"a", "@x.com">>, <<"phone_", "b", "@tempuser.com">>}
VerifiedPhones == {<<"+", "91", "1">>, <<"2">>}
PostedEmails == {NoText, <<"c", "@x.com">>}
PostedPhones == {NoText, <<"+", "91", "7">>}
PostedNames == {NoText, <<"N">>}

Signup ==
    /\ nextAccountId <= MaxAccounts
    /\ \E e \in SignupEmails, ph \in {NoText, <<"2">>}, c \in {1, 2} :
          signup(e, ph, NoText, 1, c)

PhoneSignin ==
    /\ nextAccountId <= MaxAccounts
    /\ \E ph \in VerifiedPhones : phone_signin(ph)

UpdateProfile ==
    \E id \in AccountIds, n \in PostedNames, e \in PostedEmails,
       ph \in PostedPhones : update_user_profile(id, n, e, ph)

CompleteProfile ==
    \E id \in AccountIds, e \in PostedEmails, n \in PostedNames :
        profile_update(id, e, n)

NextProfile ==
    \/ Signup
    \/ PhoneSignin
    \/ UpdateProfile
    \/ CompleteProfile

SpecProfile == Init /\ [][NextProfile]_vars

\* C11: update_user_profile never changes the phone number of an account
\* registered through phone_signin nor the email of an account registered
\* by signup: a request that posts one answers 400 and leaves the stored
\* user unchanged.
C11_RegisteredIdentityKept ==
    [][resp'.op = "update_user_profile"
       => \A a \in accounts :
             (/\ a.id = resp'.account
              /\ \/ a.registered_via = "phone_signin"
                    /\ resp'.body.phone_number # NoText
                 \/ a.registered_via = "signup"
                    /\ resp'.body.email # NoText)
             => (resp'.code = 400 /\ accounts' = accounts)]_vars

(***************************************************************************)
(* SpecCert: the admin generates, regenerates and sends the certificates   *)
(* of a completed course and toggles the GoldPass of its purchase.         *)
(***************************************************************************)
\* the certificate numbers a generation may draw
MaxCertNumbers == 2

CertificateNumbers == 1..MaxCertNumbers

\* student_view.py:267-281: form_type == 'toggle_goldpass'
ToggleGoldpass(pid) ==
    /\ \E p \in purchases :
          /\ p.id = pid
          /\ purchases' = (purchases \ {p}) \cup
                 {[p EXCEPT !.require_goldpass = ~ p.require_goldpass]}
    /\ resp' = Reply("toggle_goldpass", 302, "-", 0, 0)
    /\ UNCHANGED <<catalogVars, nextPurchaseId, progressVars, certVars,
                   requests, authVars>>

\* u1 has completed the only topic of p1
InitCert ==
    /\ topics = {NewTopic(1, "p1", MMSS(0, 10), TRUE)}
    /\ nextTopicId = 2
    /\ purchases = {NewPurchase(1, "u1", "p1", "completed", FALSE)}
    /\ nextPurchaseId = 2
    /\ topicProgress =
          {UpdatedTopicProgress(NewTopicProgress(1, "u1", 1, 1, 10), 9, 10)}
    /\ nextTopicProgressId = 2
    /\ courseProgress =
          {RolledUp(NewCourseProgress(1, "u1", 1, 1),
                    [total_topics |-> 1, completed_topics |-> 1,
                     in_progress_topics |-> 0, total_watch_time |-> 9])}
    /\ nextCourseProgressId = 2
    /\ InitNoCertificates
    /\ InitNoRequests
    /\ InitAuthIdle
    /\ resp = Reply("none", 0, "-", 0, 0)

CertGenerate ==
    \E cpid \in {1, 2}, n \in CertificateNumbers : GenerateCertificate(cpid, {}, n)

CertToggle == \E pid \in {1} : ToggleGoldpass(pid)

CertSend == \E cpid \in {1} : SendCertificate(cpid)

NextCert ==
    \/ CertGenerate
    \/ CertToggle
    \/ CertSend

SpecCert == InitCert /\ [][NextCert]_vars

\* C12: after every generate_certificate_ajax call for a course progress,
\* regenerations and GoldPass toggles included, all UserCertificate rows of
\* the course progress carry one certificate_number, the one the latest
\* generation returned and rendered into the PDFs.
C12_OneCertificateNumber ==
    [][(resp'.op = "generate_certificate" /\ resp'.code = 200)
       => \A c \in certificates' :
             c.course_progress = resp'.course_progress
                 => c.certificate_number = resp'.body.certificate_number]_vars

\* C13: after a successful generate_certificate_ajax call the certificate
\* types stored for the course progress are internship, training, credit
\* and recommendation, plus placement exactly when the purchase requires
\* GoldPass, also when GoldPass was toggled between two generations.
C13_TypesFollowGoldpass ==
    [][(resp'.op = "generate_certificate" /\ resp'.code = 200)
       => {c.certificate_type :
              c \in {x \in certificates' :
                        x.course_progress = resp'.course_progress}}
          = {"internship", "training", "credit", "recommendation"}
               \cup (IF resp'.body.require_goldpass THEN {"placement"} ELSE {})]_vars

(***************************************************************************)
(* Claims about purchase_course, checked in SpecPurchase.                  *)
(***************************************************************************)
\* C14: a purchase_course request for a program of which the user holds a
\* 'completed' purchase when the request looks it up answers 400 'You have
\* already purchased this course', does not call the payment gateway and
\* creates or changes no UserPurchase and no UserCourseProgress.  (A step
\* that answers purchase_course and leaves the requests in flight as they
\* were is a request answered at its lookup.)
C14_AlreadyPurchasedRejected ==
    [][(/\ resp'.op = "purchase_course"
        /\ requests' = requests
        /\ \E p \in purchases : /\ p.user = resp'.user
                                /\ p.program = resp'.body.program
                                /\ p.status = "completed")
       => (/\ resp'.code = 400
           /\ resp'.body.message = "You have already purchased this course"
           /\ ~ resp'.body.gateway_called
           /\ purchases' = purchases
           /\ courseProgress' = courseProgress)]_vars

\* C14 witness: such a request has been rejected
C14_Witness ==
    /\ resp.op = "purchase_course"
    /\ resp.code = 400
    /\ resp.body.message = "You have already purchased this course"
    /\ \E p \in purchases : /\ p.user = resp.user
                            /\ p.program = resp.body.program
                            /\ p.status = "completed"

\* C16: a purchase_course request in which the payment gateway reported
\* success creates the UserPurchase with status 'completed' and its
\* UserCourseProgress and answers success, also when the user has a pending
\* or cancelled purchase of the program and when two requests of the user
\* for the program run concurrently.
C16_PaidPurchaseIsCreated ==
    [][(resp'.op = "purchase_course" /\ resp'.body.payment_success)
       => (/\ resp'.code = 200
           /\ \E p \in purchases' :
                 /\ p.id = resp'.purchase
                 /\ p.user = resp'.user
                 /\ p.program = resp'.body.program
                 /\ p.status = "completed"
                 /\ \E c \in courseProgress' : c.purchase = p.id)]_vars

(***************************************************************************)
(* Claims about the rejections of update-progress, checked in SpecWatch.   *)
(***************************************************************************)
\* C15: update-progress rejects a negative watch_time_seconds with 400, a
\* purchase_id that is not a 'completed' purchase of the user with 404, an
\* unknown topic_id with 404 and a topic of another program than the
\* purchased one with 400, and a rejected request changes no
\* UserTopicProgress and no UserCourseProgress row.
C15_RejectionChangesNothing ==
    [][/\ \A u \in Users, pid \in 1..2, tid \in 1..3, w \in WatchInputs :
             LET mine == {p \in purchases : /\ p.id = pid /\ p.user = u
                                            /\ p.status = "completed"}
                 topic == {t \in topics : t.id = tid}
                 code == UpdateRejection(u, pid, tid, w)
             IN /\ w < 0 => code = 400
                /\ (w >= 0 /\ mine = {}) => code = 404
                /\ (w >= 0 /\ mine # {} /\ topic = {}) => code = 404
                /\ (w >= 0 /\ mine # {} /\ topic # {}
                      /\ \A t \in topic : \A p \in mine : t.program # p.program)
                       => code = 400
       /\ (resp'.op = "update_progress" /\ resp'.code \in {400, 404})
             => (topicProgress' = topicProgress /\ courseProgress' = courseProgress)
      ]_vars

\* C15 witness: a request was rejected when progress rows existed
C15_Witness ==
    /\ resp.op = "update_progress"
    /\ resp.code \in {400, 404}
    /\ topicProgress # {}
    /\ courseProgress # {}

(***************************************************************************)
(* The update_progress methods of the two progress models.                 *)
(***************************************************************************)
\* models.py:316-329: the field defaults of a UserTopicProgress
BlankTopicProgress(id, u, pid, tid) == NewTopicProgress(id, u, pid, tid, 0)

\* models.py:363-384: UserTopicProgress.update_progress; a
\* total_duration_seconds of 0 stands for None as well (both are falsy)
TopicUpdateProgress(row, watch_time_seconds, total_duration_seconds) ==
    LET total == IF total_duration_seconds # 0 THEN total_duration_seconds
                 ELSE row.total_duration_seconds
        pct == IF total > 0 THEN TopicCompletion(watch_time_seconds, total)
               ELSE row.completion_percentage
    IN [row EXCEPT !.watch_time_seconds = watch_time_seconds,
                   !.total_duration_seconds = total,
                   !.completion_percentage = pct,
                   !.status = NextTopicStatus(row.status, pct)]

\* a call of the method on the row `id`
TopicProgressUpdate(id, watch_time_seconds, total_duration_seconds) ==
    /\ \E row \in topicProgress :
          /\ row.id = id
          /\ topicProgress' = (topicProgress \ {row}) \cup
                 {TopicUpdateProgress(row, watch_time_seconds,
                                      total_duration_seconds)}
    /\ resp' = Reply("topic_update_progress", 0, "-", 0, id)
    /\ UNCHANGED <<catalogVars, purchaseVars, nextTopicProgressId,
                   courseProgress, nextCourseProgressId, certVars, requests,
                   authVars>>

\* models.py:435-466: UserCourseProgress.update_progress; total_topics is
\* the number of the purchase's UserTopicProgress rows, the percentage is
\* kept when there is none and is_completed is only ever set
CourseUpdateProgress(cp, tpRows) ==
    LET topic_progress == {r \in tpRows : r.user = cp.user /\ r.purchase = cp.purchase}
        total_topics == Cardinality(topic_progress)
        completed_topics ==
            Cardinality({r \in topic_progress : r.status = "completed"})
        pct == IF total_topics > 0 THEN Pct(completed_topics * 100, total_topics)
               ELSE cp.completion_percentage
    IN [cp EXCEPT !.total_topics = total_topics,
                  !.completed_topics = completed_topics,
                  !.in_progress_topics =
                      Cardinality({r \in topic_progress : r.status = "in_progress"}),
                  !.completion_percentage = pct,
                  !.is_completed = IF PctGE(pct, 100) THEN TRUE ELSE @,
                  !.total_watch_time_seconds = SumWatch(topic_progress)]

\* a call of the method on the course progress `cpid`
CourseProgressUpdate(cpid) ==
    /\ \E cp \in courseProgress :
          /\ cp.id = cpid
          /\ courseProgress' = (courseProgress \ {cp}) \cup
                 {CourseUpdateProgress(cp, topicProgress)}
    /\ resp' = CertReply("course_update_progress", 0, cpid)
    /\ UNCHANGED <<catalogVars, purchaseVars, topicProgress,
                   nextTopicProgressId, nextCourseProgressId, certVars,
                   requests, authVars>>

(***************************************************************************)
(* SpecMethods: u1 holds program p1 of two topics; the endpoint and the    *)
(* two methods update the progress rows.                                   *)
(***************************************************************************)
InitMethods ==
    /\ topics = {NewTopic(1, "p1", MMSS(0, 10), TRUE),
                 NewTopic(2, "p1", MMSS(0, 10), TRUE)}
    /\ nextTopicId = 3
    /\ purchases = {NewPurchase(1, "u1", "p1", "completed", FALSE)}
    /\ nextPurchaseId = 2
    /\ topicProgress = {BlankTopicProgress(1, "u1", 1, 1)}
    /\ nextTopicProgressId = 2
    /\ courseProgress = {NewCourseProgress(1, "u1", 1, 2)}
    /\ nextCourseProgressId = 2
    /\ InitNoCertificates
    /\ InitNoRequests
    /\ InitAuthIdle
    /\ resp = Reply("none", 0, "-", 0, 0)

\* the arguments of UserTopicProgress.update_progress: any non-negative
\* watch time, and a duration or none
MethodWatchTimes == {0, 5, 9, 20}
MethodDurations == {0, 10, 20}

MethodsTopicUpdate ==
    \E id \in {1, 2}, w \in MethodWatchTimes, d \in MethodDurations :
        TopicProgressUpdate(id, w, d)

MethodsCourseUpdate == \E cpid \in {1} : CourseProgressUpdate(cpid)

MethodsEndpoint ==
    \E tid \in {1, 2}, w \in {5, 9} : UpdateLearningProgress("u1", 1, tid, w)

NextMethods ==
    \/ MethodsTopicUpdate
    \/ MethodsCourseUpdate
    \/ MethodsEndpoint

SpecMethods == InitMethods /\ [][NextMethods]_vars

\* C17: across UserTopicProgress.update_progress calls on a row, with any
\* non-negative arguments, the status of the row never moves backward.
C17_MethodStatusNeverBackward ==
    [][resp'.op = "topic_update_progress"
       => \A r \in topicProgress : \A r2 \in topicProgress' :
             r2.id = r.id => StatusRank(r2.status) >= StatusRank(r.status)]_vars

\* C18: UserCourseProgress.update_progress stores completion_percentage =
\* completed topics / topics of the purchased program x 100 and is_completed
\* exactly when every topic of the program is completed, which is what the
\* update-progress endpoint stores for the same UserTopicProgress rows.
C18_MethodMatchesEndpoint ==
    [][resp'.op = "course_update_progress"
       => \A c \in courseProgress' :
             c.id = resp'.course_progress =>
                \E p \in purchases :
                   /\ p.id = c.purchase
                   /\ LET endpoint ==
                              RolledUp(c, RollupCounts(topicProgress', topics,
                                                       c.user, p))
                          total == Cardinality({t \in topics : t.program = p.program})
                          completed ==
                              Cardinality({r \in topicProgress' :
                                              /\ r.user = c.user
                                              /\ r.purchase = p.id
                                              /\ r.status = "completed"})
                      IN /\ total > 0 =>
                               c.completion_percentage.num * total
                                   = completed * 100 * c.completion_percentage.den
                         /\ c.is_completed => (total > 0 /\ completed = total)
                         /\ PctEq(c.completion_percentage,
                                  endpoint.completion_percentage)
                         /\ c.is_completed = endpoint.is_completed]_vars

(***************************************************************************)
(* The certificate email: the Celery worker runs the queued                *)
(* send_certificates_email_task calls.                                     *)
(***************************************************************************)
\* tasks.py:14: @shared_task(bind=True, max_retries=3)
MaxRetries == 3

\* tasks.py:83-88, :111: the email to the student and the certificates
\* attached to it
CertificateEmail(cp, attached) ==
    [to |-> cp.user, course_progress |-> cp.id,
     attached |-> {c.certificate_type : c \in attached}]

\* tasks.py:14-132: the worker runs the call at the head of the queue.
\* `unreadable` are the certificate types whose stored file cannot be opened
\* (:94-104 catches the error and goes on) and send_ok tells whether
\* email.send(fail_silently=False) returns or raises (:111).  self.retry
\* (:132) queues the call again, 60 seconds later, while the call has fewer
\* than max_retries retries behind it; after that the exception ends it.
\* No branch writes a UserCertificate
send_certificates_email_task(unreadable, send_ok) ==
    /\ emailTasks # << >>
    /\ LET task == Head(emailTasks)
           cps == FindCompletedCourseProgress(courseProgress,
                                              task.course_progress_id)
           done == /\ emailTasks' = Tail(emailTasks)
                   /\ UNCHANGED outbox
       IN IF cps = {} THEN done
          ELSE LET cp == CHOOSE c \in cps : TRUE
                   purchase == CHOOSE p \in purchases : p.id = cp.purchase
                   certs == CertificatesOf(certificates, cp, purchase.program)
                   attached == {c \in certs :
                                   /\ c.certificate_file
                                   /\ c.certificate_type \notin unreadable}
               IN IF certs = {} THEN done
                  ELSE IF attached = {} THEN done
                  ELSE IF send_ok
                  THEN /\ outbox' = outbox \cup {CertificateEmail(cp, attached)}
                       /\ emailTasks' = Tail(emailTasks)
                  ELSE /\ emailTasks' =
                              IF task.retries < MaxRetries
                              THEN Append(Tail(emailTasks),
                                          EmailTask(task.course_progress_id,
                                                    task.retries + 1))
                              ELSE Tail(emailTasks)
                       /\ UNCHANGED outbox
    /\ UNCHANGED <<catalogVars, purchaseVars, progressVars, certificates,
                   requests, authVars, resp>>

\* admin.py:573-577: the admin action "Mark selected certificates as
\* pending" on the rows the superuser has selected
mark_as_pending(queryset) ==
    /\ queryset # {}
    /\ certificates' = (certificates \ queryset)
                           \cup {[c EXCEPT !.status = "pending"] : c \in queryset}
    /\ resp' = Reply("mark_as_pending", 302, "-", 0, 0)
    /\ UNCHANGED <<catalogVars, purchaseVars, progressVars, emailTasks, outbox,
                   requests, authVars>>

(***************************************************************************)
(* SpecMail: SpecCert with the worker and the admin action.  The worker is *)
(* a running process: a queued call is run in the end (weak fairness); the *)
(* requests of the dashboard and of the admin site may never come.         *)
(***************************************************************************)
\* the calls of the task the queue holds at a time
MaxQueued == 2

\* the certificate types whose file the storage may fail to open
UnreadableFiles == {{}, CertificateTypes(TRUE)}

MailGenerate == \E cpid \in {1} : GenerateCertificate(cpid, {}, 1)

MailSend ==
    /\ Len(emailTasks) < MaxQueued
    /\ \E cpid \in {1} : SendCertificate(cpid)

MailTask ==
    \E unreadable \in UnreadableFiles, send_ok \in BOOLEAN :
        send_certificates_email_task(unreadable, send_ok)

\* the superuser selects the certificates of the list that are 'sent'
MailMarkPending ==
    mark_as_pending({c \in certificates : c.status = "sent"})

NextMail ==
    \/ MailGenerate
    \/ CertToggle
    \/ MailSend
    \/ MailTask
    \/ MailMarkPending

SpecMail == InitCert /\ [][NextMail]_vars /\ WF_vars(MailTask)

SentCertificate(ty) ==
    \E c \in certificates : c.certificate_type = ty /\ c.status = "sent"

DeliveredCertificate(ty) ==
    \E c \in certificates :
        /\ c.certificate_type = ty
        /\ \E mail \in outbox :
              /\ mail.to = c.user
              /\ mail.course_progress = c.course_progress
              /\ ty \in mail.attached

\* C20: once send_certificate_ajax has marked a certificate 'sent', in the
\* end the certificate is in an email delivered to the student or its status
\* is 'pending' again: it does not stay 'sent' after the task has used up
\* its retries or has returned without sending.
C20_SentIsDeliveredOrPending ==
    \A ty \in CertificateTypes(TRUE) :
        SentCertificate(ty) ~> (DeliveredCertificate(ty) \/ ~ SentCertificate(ty))

====
